---- MODULE Spec2Model ----
(***************************************************************************)
(* Model of the admission-gated test proxy (test-proxy server built on     *)
(* http-proxy): the header-size gate of the plain HTTP request handler,    *)
(* the HTTP relay with its 502 callback, and the WebSocket upgrade path.   *)
(***************************************************************************)
EXTENDS Integers, Sequences, FiniteSets, TLC

(***************************************************************************)
(* Bounds of the model.                                                    *)
(***************************************************************************)
NumConns == 2      \* client connections open at the same time
MaxHttp == 2       \* requests other clients send to the mock in a test run
MaxReqs == 3       \* requests served by the process in one behaviour
MaxFrames == 2     \* chunks the peers of all WebSocket sessions send in one behaviour
Slack == 2         \* header sizes explored on each side of a threshold

Conns == 1..NumConns

(***************************************************************************)
(* Header collections.  req.headers is an object from lower-cased header   *)
(* names to values; a collection is the sequence of its entries.  A value  *)
(* is a literal followed by pad filler characters, none of which JSON      *)
(* escapes.                                                                *)
(***************************************************************************)
Header(n, v, p) == [name |-> n, value |-> v, pad |-> p]

RECURSIVE EntriesLength(_)
EntriesLength(h) ==
    IF h = <<>> THEN 0
    ELSE LET e == Head(h)
         IN  \* "name":"value" and the comma before every entry but the first
             Len(e.name) + 2 + 1 + Len(e.value) + e.pad + 2
             + (IF Len(h) > 1 THEN 1 ELSE 0) + EntriesLength(Tail(h))

\* JSON.stringify(req.headers).length
JSONLength(h) == 2 + EntriesLength(h)

headerSize(h) == JSONLength(h)

defaultHeaderBufferSize == 1024
defaultLargeBuffers == 4 * 8 * 1024
fixedHeaderBufferSize == 16 * 1024
fixedLargeBuffers == 16 * 32 * 1024

\* mutant: the large-buffer comparison is not strict
DefaultTierFails_NotStrict(size) ==
    size > defaultHeaderBufferSize /\ size >= defaultLargeBuffers

\* the condition of the first if of the request handler
DefaultTierFails(size) ==
    size > defaultHeaderBufferSize /\ size > defaultLargeBuffers

\* mutant: the comparison is the wrong way round
FixedTierFails_Flipped(size) == size < fixedLargeBuffers

\* the condition of the second if of the request handler
FixedTierFails(size) == size > fixedLargeBuffers

Body400Default ==
    << "<html>",
       "<head><title>400 Request Header Or Cookie Too Large</title></head>",
       "<body>",
       "<center><h1>400 Bad Request</h1></center>",
       "<center>Request Header Or Cookie Too Large</center>",
       "<hr><center>nginx/1.28.0</center>",
       "</body>",
       "</html>" >>

Body400Expanded ==
    << "<html>",
       "<head><title>400 Request Header Or Cookie Too Large</title></head>",
       "<body>",
       "<center><h1>400 Bad Request</h1></center>",
       "<center>Request Header Or Cookie Too Large (even with increased buffers)</center>",
       "<hr><center>nginx/1.28.0</center>",
       "</body>",
       "</html>" >>

Body502 == << "Bad Gateway: Could not proxy request" >>

Response(s, t, b) == [status |-> s, ctype |-> t, body |-> b]

NoResponse == [status |-> 0, ctype |-> "", body |-> <<>>]

(***************************************************************************)
(* Requests.  httpVersion is part of the request line, not of the header   *)
(* collection.                                                             *)
(***************************************************************************)
Request(m, u, v, h) == [method |-> m, url |-> u, httpVersion |-> v, headers |-> h]

NoUrl == [path |-> <<>>, query |-> ""]

NoReq == [method |-> "", url |-> NoUrl, httpVersion |-> "", headers |-> <<>>]

HeaderValue(h, n) ==
    IF \E i \in 1..Len(h) : h[i].name = n
    THEN h[CHOOSE i \in 1..Len(h) : h[i].name = n].value
    ELSE ""

\* the http server emits 'upgrade' instead of 'request' for a request with
\* an Upgrade header on a connection marked Connection: Upgrade, because an
\* 'upgrade' listener is registered
IsUpgradeRequest(r) ==
    /\ HeaderValue(r.headers, "upgrade") # ""
    /\ HeaderValue(r.headers, "connection") = "Upgrade"

\* the http server keeps an HTTP/1.1 connection open after res.end() unless
\* the request or the response says Connection: close
KeepAlive(r) ==
    /\ r.httpVersion = "1.1"
    /\ HeaderValue(r.headers, "connection") # "close"

\* mutant: the return after the first synthetic 400 is missing
RequestHandler_NoReturn(r) ==
    LET size == headerSize(r.headers)
    IN  IF DefaultTierFails(size)
        THEN [verdict |-> "RejectedDefault",
              res |-> Response(400, "text/html", Body400Default),
              proxied |-> TRUE]
        ELSE IF FixedTierFails(size)
        THEN [verdict |-> "RejectedExpanded",
              res |-> Response(400, "text/html", Body400Expanded),
              proxied |-> FALSE]
        ELSE [verdict |-> "Accepted", res |-> NoResponse, proxied |-> TRUE]

\* mutant: the tier of the increased buffers is checked first
RequestHandler_ExpandedFirst(r) ==
    LET size == headerSize(r.headers)
    IN  IF FixedTierFails(size)
        THEN [verdict |-> "RejectedExpanded",
              res |-> Response(400, "text/html", Body400Expanded),
              proxied |-> FALSE]
        ELSE IF DefaultTierFails(size)
        THEN [verdict |-> "RejectedDefault",
              res |-> Response(400, "text/html", Body400Default),
              proxied |-> FALSE]
        ELSE [verdict |-> "Accepted", res |-> NoResponse, proxied |-> TRUE]

\* mutant: the checks are made for GET requests only
RequestHandler_GetOnly(r) ==
    LET size == headerSize(r.headers)
    IN  IF r.method = "GET" /\ DefaultTierFails(size)
        THEN [verdict |-> "RejectedDefault",
              res |-> Response(400, "text/html", Body400Default),
              proxied |-> FALSE]
        ELSE IF r.method = "GET" /\ FixedTierFails(size)
        THEN [verdict |-> "RejectedExpanded",
              res |-> Response(400, "text/html", Body400Expanded),
              proxied |-> FALSE]
        ELSE [verdict |-> "Accepted", res |-> NoResponse, proxied |-> TRUE]

\* what the 'request' handler does with a request: the branch it takes
\* (the verdict), the response it writes itself, and whether it reaches
\* proxy.web
RequestHandler(r) ==
    LET size == headerSize(r.headers)
    IN  IF DefaultTierFails(size)
        THEN [verdict |-> "RejectedDefault",
              res |-> Response(400, "text/html", Body400Default),
              proxied |-> FALSE]
        ELSE IF FixedTierFails(size)
        THEN [verdict |-> "RejectedExpanded",
              res |-> Response(400, "text/html", Body400Expanded),
              proxied |-> FALSE]
        ELSE [verdict |-> "Accepted", res |-> NoResponse, proxied |-> TRUE]

\* what the 'upgrade' handler does with a request: it calls proxy.ws
UpgradeHandler(r) ==
    [verdict |-> "none", res |-> NoResponse, proxied |-> TRUE]

\* String.prototype.toLowerCase on the protocol names the model sends
toLowerCase(v) == IF v = "WebSocket" THEN "websocket" ELSE v

\* the first pass of proxy.ws: it destroys the socket and stops unless the
\* request is a GET that upgrades to websocket
checkMethodAndHeader(r) ==
    \/ r.method # "GET"
    \/ HeaderValue(r.headers, "upgrade") = ""
    \/ toLowerCase(HeaderValue(r.headers, "upgrade")) # "websocket"

Admit(h) == RequestHandler(Request("GET", NoUrl, "1.1", h)).verdict

(***************************************************************************)
(* The header collections the model sends.                                 *)
(***************************************************************************)
PlainBase == << Header("host", "localhost:9223", 0) >>

UpgradeBase ==
    << Header("host", "localhost:9223", 0),
       Header("connection", "Upgrade", 0),
       Header("upgrade", "websocket", 0),
       Header("sec-websocket-key", "dGhlIHNhbXBsZSBub25jZQ==", 0),
       Header("sec-websocket-version", "13", 0) >>

\* base with a cookie header of p characters appended
WithCookie(base, p) == Append(base, Header("cookie", "", p))

\* the cookie length that brings base to a serialized size of exactly t
CookiePad(base, t) == t - JSONLength(WithCookie(base, 0))

AgentBase ==
    << Header("host", "localhost:9223", 0),
       Header("user-agent", "curl/8.5.0", 0),
       Header("accept", "*/*", 0) >>

Thresholds ==
    { defaultHeaderBufferSize, fixedHeaderBufferSize,
      defaultLargeBuffers, fixedLargeBuffers }

SizeTargets ==
    UNION { (t - Slack)..(t + Slack) : t \in Thresholds } \cup {500, 8192, 40000, 100000, 600000}

\* inputs of the gate alone: plain collections of every size around the
\* four buffer sizes
GateInputs ==
    {PlainBase, AgentBase}
    \cup { WithCookie(b, CookiePad(b, t)) :
             b \in {PlainBase, AgentBase}, t \in SizeTargets }

\* a request target: the path as the segments that follow each '/', and the
\* query after the first '?'
Url(p, q) == [path |-> p, query |-> q]

\* header collections of the requests sent to the running proxy
PlainHeaders ==
    { WithCookie(PlainBase, CookiePad(PlainBase, t)) :
        t \in {defaultHeaderBufferSize, 40000} }

UpgradeHeaders ==
    {UpgradeBase, WithCookie(UpgradeBase, CookiePad(UpgradeBase, 40000))}

PlainRequests ==
    { Request(l.method, l.url, l.httpVersion, h) :
        l \in { [method |-> "GET", httpVersion |-> "1.1",
                 url |-> Url(<<"json", "version">>, "")],
                [method |-> "PUT", httpVersion |-> "1.0",
                 url |-> Url(<<"", "json", "new">>, "url=about:blank")] },
        h \in PlainHeaders }

\* an upgrade to a protocol other than websocket
UpgradeH2c ==
    << Header("host", "localhost:9223", 0),
       Header("connection", "Upgrade", 0),
       Header("upgrade", "h2c", 0) >>

UpgradeRequests ==
    { Request("GET", Url(<<"devtools", "page", "mock-page-1">>, ""), "1.1", h) :
        h \in UpgradeHeaders }
    \cup { Request("GET", Url(<<"json", "version">>, ""), "1.1", UpgradeH2c) }

Requests == PlainRequests \cup UpgradeRequests

(***************************************************************************)
(* The backend, a black box: what it answers to a proxied request.         *)
(***************************************************************************)
BackendResponse(s, t, b, k) ==
    [status |-> s, ctype |-> t, body |-> b, connClose |-> k]

NoBackendResponse == [status |-> 0, ctype |-> "", body |-> <<>>, connClose |-> FALSE]

BackendResponses ==
    { BackendResponse(200, "application/json", <<"a", "b">>, TRUE),
      BackendResponse(404, "text/html", <<>>, FALSE) }

\* the answer of a backend that switches protocols
SwitchingProtocols == BackendResponse(101, "", <<>>, FALSE)

\* answers of a backend that does not switch protocols
BackendRefusals == { BackendResponse(400, "text/plain", <<"Bad Request">>, TRUE) }

\* what a backend may answer to a replayed upgrade request
UpgradeAnswers == {SwitchingProtocols} \cup BackendRefusals

NoLine == [method |-> "", url |-> NoUrl]

(***************************************************************************)
(* State.                                                                  *)
(***************************************************************************)
VARIABLES
    running,   \* the proxy process is alive
    proc,      \* the process: its listening socket, signals, how it ended
    served,    \* requests dispatched to a handler so far
    pc,        \* per connection: where its current exchange stands
    req,       \* per connection: the request being served, or the last one
    verdict,   \* per connection: the branch the request handler took
    res,       \* per connection: what was written to the client for req
    be,        \* per connection: the backend side of the exchange for req
    ws,        \* per connection: chunks pumped in the Relaying state
    gIn,       \* gate alone: the header collection under test
    gOut,      \* gate alone: the handler's outcome for gIn, or NoOutcome
    tester,    \* test client: where runFullTest stands and what it recorded
    wire,      \* test run: messages in flight between client, proxy and mock
    mock,      \* mock debugger: its WebSocket connection and pending timers
    script     \* startup script: its position and its port variables

vars == <<running, proc, served, pc, req, verdict, res, be, ws, gIn, gOut,
          tester, wire, mock, script>>

connVars == <<running, proc, served, pc, req, verdict, res, be, ws>>

gateVars == <<gIn, gOut>>

testVars == <<tester, wire, mock>>

scriptVars == <<script>>

NoOutcome == [verdict |-> "none", res |-> NoResponse, proxied |-> FALSE]

\* the process after server.listen: no signal yet, not ended
FreshProc == [listening |-> TRUE, closing |-> FALSE, exit |-> "none"]

\* nothing written to the client yet
FreshRes == [pending |-> NoResponse, heads |-> <<>>, body |-> <<>>, ended |-> FALSE]

\* no backend connection attempted yet
FreshBe ==
    [attempts |-> 0, got |-> NoLine, resp |-> NoBackendResponse,
     sent |-> 0, error |-> "none"]

\* a session before the upgrade: the client socket is open, there is no
\* socket to the backend, nothing was sent or relayed
FreshWs ==
    [client |-> "open", backend |-> "none",
     cSent |-> 0, toBackend |-> <<>>, bSent |-> 0, toClient |-> <<>>]

\* the i-th chunk a peer writes to its socket
Frame(from, i) == [from |-> from, seq |-> i]

\* socket.end(): our side is finished, the socket lives until the peer's FIN
EndWrite(st) ==
    IF st = "open" THEN "writeEnded"
    ELSE IF st = "readEnded" THEN "closed"
    ELSE st

\* the peer's FIN arrives: a socket of the http server is allowHalfOpen and
\* keeps its writable side, a socket of http.request ends with it
EndRead(st, allowHalfOpen) ==
    IF st = "none" THEN st
    ELSE IF allowHalfOpen /\ st = "open" THEN "readEnded"
    ELSE "closed"

Readable(st) == st \in {"open", "writeEnded"}

Writable(st) == st \in {"open", "readEnded"}

\* where a session stands, from its two sockets
SessionPc(w) ==
    IF w.client = "closed" /\ w.backend \in {"closed", "none"} THEN "closed"
    ELSE IF w.client = "open" /\ w.backend = "open" THEN "relaying"
    ELSE "closing"

ResHead(s, t) == [status |-> s, ctype |-> t]

(***************************************************************************)
(* http-proxy: the request it sends to the target.                         *)
(***************************************************************************)
\* path of the target http://localhost:${TARGET_PORT}
TargetPath == << "" >>

\* .replace(/\/+/g, '/'): an empty segment survives only at the end
RECURSIVE CollapseSlashes(_)
CollapseSlashes(p) ==
    IF Len(p) <= 1 THEN p
    ELSE IF p[1] = "" THEN CollapseSlashes(Tail(p))
    ELSE <<p[1]>> \o CollapseSlashes(Tail(p))

\* .replace(scheme + '/', scheme + '//'): the first segment that is scheme
\* and has a successor gets an empty segment after it (the segment texts of
\* the model end in a scheme only when they are the scheme)
RestoreScheme(p, scheme) ==
    IF \E i \in 1..(Len(p) - 1) : p[i] = scheme
    THEN LET i == CHOOSE j \in 1..(Len(p) - 1) :
                      p[j] = scheme /\ \A k \in 1..(j - 1) : p[k] # scheme
         IN  SubSeq(p, 1, i) \o <<"">> \o SubSeq(p, i + 1, Len(p))
    ELSE p

\* common.urlJoin(targetPath, req.url): the query is split off, the paths
\* are joined with '/', slashes are collapsed, and the query is put back
urlJoin(targetPath, u) ==
    Url(RestoreScheme(
            RestoreScheme(CollapseSlashes(targetPath \o <<"">> \o u.path), "http:"),
            "https:"),
        u.query)

\* the request line http-proxy sends to the backend for r (setupOutgoing)
ProxiedLine(r) == [method |-> r.method, url |-> urlJoin(TargetPath, r.url)]

\* the status http-proxy sets on the client response for a backend response
ForwardedStatus(proxyRes) == proxyRes.status

\* mutant: the chunk is put in front of what was piped before
PipeChunk_Prepend(body, chunk) == <<chunk>> \o body

\* mutant: the chunk is written twice
PipeChunk_Twice(body, chunk) == body \o <<chunk, chunk>>

\* proxyRes.pipe(res): one more chunk of the backend's body on the client side
PipeChunk(body, chunk) == Append(body, chunk)

\* mutant: every answer of the backend is taken for the protocol switch
Upgraded_Always(proxyRes) == TRUE

\* res.upgrade: the backend's answer switches protocols
Upgraded(proxyRes) == proxyRes.status = 101

(***************************************************************************)
(* The test client (ChromeDebuggerTester.runFullTest) and the mock         *)
(* debugger, with the proxy between them.                                  *)
(***************************************************************************)
\* results as runFullTest initialises them
NoResults ==
    [connectivity |-> FALSE, websocket |-> FALSE,
     javascript |-> FALSE, navigation |-> FALSE]

NoReport == [passedTests |-> 0, totalTests |-> 0]

\* the test client before runFullTest: no client, no listener, no report
FreshTester ==
    [pc |-> "list1", sent |-> FALSE, nextId |-> 1, client |-> FALSE,
     connected |-> FALSE, started |-> <<>>, closeOutcome |-> "none",
     listener |-> FALSE, loaded |-> FALSE, results |-> NoResults,
     report |-> NoReport, exit |-> "none"]

\* the proxy is up and nothing is in flight: client to proxy, proxy to mock,
\* mock to proxy, proxy to client
FreshWire ==
    [proxyUp |-> TRUE, c2p |-> <<>>, p2m |-> <<>>, m2p |-> <<>>, p2c |-> <<>>]

\* the mock after server.listen: no WebSocket connection, no timer pending
\* a target of the mock: its id is 'mock-page-' and a number
Target(n, url) == [id |-> <<"mock-page-", n>>, type |-> "page", url |-> url]

\* the two targets the mock starts with
mockTargets ==
    <<Target(1, "https://example.com"), Target(2, "about:blank")>>

\* no HTTP request answered yet
NoAnswer == [method |-> "", path |-> "", status |-> 0, listing |-> <<>>]

\* got and log are what the message handler has received and what the mock
\* has sent on the WebSocket connection, sendsOnClosed counts the calls of
\* ws.send on a connection that is closed; nreq counts the HTTP requests
\* handled, direct those of other clients, last is the latest HTTP answer
FreshMock ==
    [listening |-> TRUE, exit |-> "none", wsOpen |-> FALSE, timers |-> 0,
     got |-> <<>>, log |-> <<>>, sendsOnClosed |-> 0,
     targets |-> mockTargets, nreq |-> 0, direct |-> 0, last |-> NoAnswer]

\* a variable of the shell that has no value
Unset == -1

\* the startup script before it is run
FreshScript ==
    [pc |-> "off", CHROME_PORT |-> <<>>, NGINX_PORT |-> Unset, args |-> <<>>]

TestInit ==
    /\ tester = FreshTester
    /\ wire = FreshWire
    /\ mock = FreshMock
    /\ script = FreshScript

(***************************************************************************)
(* Initial state: the server listens, no client is connected.              *)
(***************************************************************************)
ConnInit ==
    /\ running = TRUE
    /\ proc = FreshProc
    /\ served = 0
    /\ pc = [c \in Conns |-> "unconnected"]
    /\ req = [c \in Conns |-> NoReq]
    /\ verdict = [c \in Conns |-> "none"]
    /\ res = [c \in Conns |-> FreshRes]
    /\ be = [c \in Conns |-> FreshBe]
    /\ ws = [c \in Conns |-> FreshWs]

Init ==
    /\ ConnInit
    /\ gIn = PlainBase
    /\ gOut = NoOutcome
    /\ TestInit

\* the state of the connection after res.end()
AfterResponse(r, connClose) ==
    IF KeepAlive(r) /\ ~connClose THEN "idle" ELSE "closed"

\* a response written and ended in one go
Written(s, t, b) ==
    [pending |-> NoResponse, heads |-> <<ResHead(s, t)>>, body |-> b, ended |-> TRUE]

\* an exception nobody catches ends the process and with it every connection
Crash ==
    /\ running' = FALSE
    /\ proc' = [proc EXCEPT !.listening = FALSE, !.exit = "uncaught"]
    /\ pc' = [d \in Conns |-> IF pc[d] = "unconnected" THEN pc[d] ELSE "closed"]

\* a handler runs to completion on request r of connection c with outcome out
Dispatch(c, r, out, relayPc) ==
    /\ served' = served + 1
    /\ req' = [req EXCEPT ![c] = r]
    /\ verdict' = [verdict EXCEPT ![c] = out.verdict]
    /\ res' = [res EXCEPT ![c] =
                 IF out.res = NoResponse THEN FreshRes
                 ELSE Written(out.res.status, out.res.ctype, out.res.body)]
    /\ be' = [be EXCEPT ![c] =
                IF out.proxied THEN [FreshBe EXCEPT !.attempts = 1] ELSE FreshBe]
    /\ ws' = [ws EXCEPT ![c] = FreshWs]
    /\ pc' = [pc EXCEPT ![c] =
                IF out.proxied THEN relayPc ELSE AfterResponse(r, FALSE)]
    /\ UNCHANGED <<running, proc>>

\* server.listen: the listening socket accepts a client.  The connections
\* are interchangeable, so they are taken in the order of their numbers.
Connect(c) ==
    /\ running /\ proc.listening /\ pc[c] = "unconnected"
    /\ \A d \in Conns : d < c => pc[d] # "unconnected"
    /\ pc' = [pc EXCEPT ![c] = "idle"]
    /\ UNCHANGED <<running, proc, served, req, verdict, res, be, ws, gateVars, testVars, scriptVars>>

\* http.createServer((req, res) => ...): a plain request arrives on c
OnRequest(c, r) ==
    /\ running /\ pc[c] = "idle" /\ served < MaxReqs
    /\ ~IsUpgradeRequest(r)
    /\ Dispatch(c, r, RequestHandler(r), "proxying")
    /\ UNCHANGED <<gateVars, testVars, scriptVars>>

\* server.on('upgrade', ...): an upgrade request arrives on c
OnUpgrade(c, r) ==
    /\ running /\ pc[c] = "idle" /\ served < MaxReqs
    /\ IsUpgradeRequest(r)
    /\ IF UpgradeHandler(r).proxied /\ checkMethodAndHeader(r)
       THEN /\ served' = served + 1
            /\ req' = [req EXCEPT ![c] = r]
            /\ verdict' = [verdict EXCEPT ![c] = UpgradeHandler(r).verdict]
            /\ res' = [res EXCEPT ![c] = FreshRes]
            /\ be' = [be EXCEPT ![c] = FreshBe]
            /\ ws' = [ws EXCEPT ![c] = [FreshWs EXCEPT !.client = "closed"]]
            /\ pc' = [pc EXCEPT ![c] = "closed"]
            /\ UNCHANGED <<running, proc>>
       ELSE Dispatch(c, r, UpgradeHandler(r), "wsConnecting")
    /\ UNCHANGED <<gateVars, testVars, scriptVars>>

\* proxyReq.on('response'): the backend got the request and answers; the
\* status and headers are set on res, to be sent with the first chunk
BackendRespond(c, proxyRes) ==
    /\ running /\ pc[c] = "proxying"
    /\ be' = [be EXCEPT ![c].got = ProxiedLine(req[c]), ![c].resp = proxyRes]
    /\ res' = [res EXCEPT ![c].pending =
                 Response(ForwardedStatus(proxyRes), proxyRes.ctype, <<>>)]
    /\ pc' = [pc EXCEPT ![c] = "streaming"]
    /\ UNCHANGED <<running, proc, served, req, verdict, ws, gateVars, testVars, scriptVars>>

\* mutant: the callback ends the client socket of every session
ProxyEndsClient_All(wsf, c) ==
    [d \in DOMAIN wsf |-> [wsf[d] EXCEPT !.client = EndWrite(@)]]

\* socket.end() in the callback of proxy.ws
ProxyEndsClient(wsf, c) == [wsf EXCEPT ![c].client = EndWrite(@)]

\* the head goes out with the first write or with end()
Flushed(rs) ==
    IF rs.heads = <<>>
    THEN [rs EXCEPT !.heads = <<ResHead(rs.pending.status, rs.pending.ctype)>>]
    ELSE rs

\* proxyRes.pipe(res) / res.pipe(socket): the next chunk of the backend's body
RelayChunk(c) ==
    /\ running /\ pc[c] \in {"streaming", "wsRefused"}
    /\ be[c].sent < Len(be[c].resp.body)
    /\ res' = [res EXCEPT ![c] =
                 [Flushed(@) EXCEPT !.body =
                    PipeChunk(@, be[c].resp.body[be[c].sent + 1])]]
    /\ be' = [be EXCEPT ![c].sent = @ + 1]
    /\ UNCHANGED <<running, proc, served, pc, req, verdict, ws, gateVars, testVars, scriptVars>>

\* the backend's body is through: pipe ends the client side
RelayEnd(c) ==
    /\ running /\ pc[c] \in {"streaming", "wsRefused"}
    /\ be[c].sent = Len(be[c].resp.body)
    /\ res' = [res EXCEPT ![c] = [Flushed(@) EXCEPT !.ended = TRUE]]
    /\ ws' = IF pc[c] = "wsRefused" THEN ProxyEndsClient(ws, c) ELSE ws
    /\ pc' = [pc EXCEPT ![c] =
                IF pc[c] = "wsRefused" THEN "closing"
                ELSE AfterResponse(req[c], be[c].resp.connClose)]
    /\ UNCHANGED <<running, proc, served, req, verdict, be, gateVars, testVars, scriptVars>>

\* mutant: a failed request to the backend is made again
FailedBe_Retry(b, kind) == [b EXCEPT !.attempts = @ + 1]

\* the backend side of an exchange after proxyReq's 'error': the callbacks
\* make no second request
FailedBe(b, kind) == [b EXCEPT !.error = kind]

\* proxyReq.on('error') with the callback of proxy.web: the connection to
\* the backend is refused, or is reset before or during the response, or
\* proxyTimeout passes without a response and the request is aborted.
\* res.writeHead throws when a head has been sent already.
BackendFail(c, kind) ==
    /\ running /\ pc[c] \in {"proxying", "streaming"}
    /\ kind \in {"refused", "timeout"} => pc[c] = "proxying"
    /\ be' = [be EXCEPT ![c] =
                [FailedBe(@, kind) EXCEPT
                    !.got = IF kind = "refused" THEN @ ELSE ProxiedLine(req[c])]]
    /\ IF res[c].heads # <<>>
       THEN Crash /\ UNCHANGED res
       ELSE /\ res' = [res EXCEPT ![c] = Written(502, "text/plain", Body502)]
            /\ pc' = [pc EXCEPT ![c] = AfterResponse(req[c], FALSE)]
            /\ UNCHANGED <<running, proc>>
    /\ UNCHANGED <<served, req, verdict, ws, gateVars, testVars, scriptVars>>

\* proxyReq.on('upgrade'): the backend switches protocols, http-proxy writes
\* the 101 head to the client socket and pipes the two sockets
WsBackendAck(c, proxyRes) ==
    /\ running /\ pc[c] = "wsConnecting"
    /\ Upgraded(proxyRes)
    /\ be' = [be EXCEPT ![c].got = ProxiedLine(req[c]), ![c].resp = proxyRes]
    /\ res' = [res EXCEPT ![c].heads = <<ResHead(101, "")>>]
    /\ ws' = [ws EXCEPT ![c].backend = "open"]
    /\ pc' = [pc EXCEPT ![c] = "relaying"]
    /\ UNCHANGED <<running, proc, served, req, verdict, gateVars, testVars, scriptVars>>

\* proxyReq.on('response') without upgrade: http-proxy writes the backend's
\* status line and headers to the client socket and pipes the body after it
WsBackendRefuse(c, proxyRes) ==
    /\ running /\ pc[c] = "wsConnecting"
    /\ ~Upgraded(proxyRes)
    /\ be' = [be EXCEPT ![c].got = ProxiedLine(req[c]), ![c].resp = proxyRes]
    /\ res' = [res EXCEPT ![c].heads = <<ResHead(proxyRes.status, proxyRes.ctype)>>]
    /\ pc' = [pc EXCEPT ![c] = "wsRefused"]
    /\ UNCHANGED <<running, proc, served, req, verdict, ws, gateVars, testVars, scriptVars>>

\* the pc of every connection that is a session past its handshake follows
\* its sockets
FollowSockets(pcf, wsf) ==
    [d \in DOMAIN pcf |->
        IF pcf[d] \in {"relaying", "closing"} THEN SessionPc(wsf[d]) ELSE pcf[d]]

\* onOutgoingError with the callback of proxy.ws: the request to the
\* backend fails before the upgrade, or the upgraded socket to the backend
\* has an error; the socket to the backend is gone, the callback ends the
\* client socket
WsBackendFail(c, kind) ==
    /\ running
    /\ \/ pc[c] = "wsConnecting" /\ kind \in {"refused", "reset"}
       \/ pc[c] \in {"relaying", "closing"} /\ kind = "reset"
                                             /\ ws[c].backend \in {"open", "writeEnded"}
    /\ be' = [be EXCEPT ![c] = FailedBe(@, kind)]
    /\ LET gone == [ws EXCEPT ![c].backend = IF @ = "none" THEN @ ELSE "closed"]
           wsf == ProxyEndsClient(gone, c)
       IN  /\ ws' = wsf
           /\ pc' = FollowSockets([pc EXCEPT ![c] = "closing"], wsf)
    /\ UNCHANGED <<running, proc, served, req, verdict, res, gateVars, testVars, scriptVars>>

RECURSIVE SentBy(_, _)
SentBy(wsf, S) ==
    IF S = {} THEN 0
    ELSE LET d == CHOOSE x \in S : TRUE
         IN  wsf[d].cSent + wsf[d].bSent + SentBy(wsf, S \ {d})

\* the backend writes a chunk to its socket
BackendSend(c) ==
    /\ running /\ pc[c] \in {"relaying", "closing"}
    /\ Readable(ws[c].backend)
    /\ SentBy(ws, Conns) < MaxFrames
    /\ ws' = [ws EXCEPT ![c].bSent = @ + 1]
    /\ UNCHANGED <<running, proc, served, pc, req, verdict, res, be, gateVars, testVars, scriptVars>>

\* the client writes a chunk to its socket
ClientSend(c) ==
    /\ running /\ pc[c] \in {"relaying", "closing"}
    /\ Readable(ws[c].client)
    /\ SentBy(ws, Conns) < MaxFrames
    /\ ws' = [ws EXCEPT ![c].cSent = @ + 1]
    /\ UNCHANGED <<running, proc, served, pc, req, verdict, res, be, gateVars, testVars, scriptVars>>

\* proxySocket.pipe(socket): the next chunk of the backend reaches the client
WsPumpToClient(c) ==
    /\ running /\ pc[c] \in {"relaying", "closing"}
    /\ Readable(ws[c].backend) /\ Writable(ws[c].client)
    /\ Len(ws[c].toClient) < ws[c].bSent
    /\ ws' = [ws EXCEPT ![c].toClient =
                PipeChunk(@, Frame("backend", Len(@) + 1))]
    /\ UNCHANGED <<running, proc, served, pc, req, verdict, res, be, gateVars, testVars, scriptVars>>

\* socket.pipe(proxySocket): the next chunk of the client reaches the backend
WsPumpToBackend(c) ==
    /\ running /\ pc[c] \in {"relaying", "closing"}
    /\ Readable(ws[c].client) /\ Writable(ws[c].backend)
    /\ Len(ws[c].toBackend) < ws[c].cSent
    /\ ws' = [ws EXCEPT ![c].toBackend =
                PipeChunk(@, Frame("client", Len(@) + 1))]
    /\ UNCHANGED <<running, proc, served, pc, req, verdict, res, be, gateVars, testVars, scriptVars>>

\* the client's FIN, after the chunks before it: the pipe ends the socket
\* to the backend
ClientEof(c) ==
    /\ running /\ pc[c] \in {"relaying", "closing"}
    /\ Readable(ws[c].client)
    /\ Len(ws[c].toBackend) = ws[c].cSent \/ ~Writable(ws[c].backend)
    /\ LET wsf == [ws EXCEPT ![c].client = EndRead(@, TRUE),
                             ![c].backend = EndWrite(@)]
       IN  /\ ws' = wsf
           /\ pc' = FollowSockets(pc, wsf)
    /\ UNCHANGED <<running, proc, served, req, verdict, res, be, gateVars, testVars, scriptVars>>

\* the backend's FIN, after the chunks before it: the pipe ends the client
\* socket
BackendEof(c) ==
    /\ running /\ pc[c] \in {"relaying", "closing"}
    /\ Readable(ws[c].backend)
    /\ Len(ws[c].toClient) = ws[c].bSent \/ ~Writable(ws[c].client)
    /\ LET wsf == [ws EXCEPT ![c].backend = EndRead(@, FALSE),
                             ![c].client = EndWrite(@)]
       IN  /\ ws' = wsf
           /\ pc' = FollowSockets(pc, wsf)
    /\ UNCHANGED <<running, proc, served, req, verdict, res, be, gateVars, testVars, scriptVars>>

\* socket.on('error') of the upgraded client socket: proxySocket.end()
ClientError(c) ==
    /\ running /\ pc[c] \in {"relaying", "closing"}
    /\ ws[c].client # "closed" /\ ws[c].backend # "none"
    /\ LET wsf == [ws EXCEPT ![c].client = "closed",
                             ![c].backend = EndWrite(@)]
       IN  /\ ws' = wsf
           /\ pc' = FollowSockets(pc, wsf)
    /\ UNCHANGED <<running, proc, served, req, verdict, res, be, gateVars, testVars, scriptVars>>

\* timeout: the client socket of a plain exchange was idle for too long
\* and is destroyed; http-proxy aborts the request to the backend and calls
\* nobody
ClientTimeout(c) ==
    /\ running /\ pc[c] \in {"idle", "proxying", "streaming"}
    /\ pc' = [pc EXCEPT ![c] = "closed"]
    /\ be' = [be EXCEPT ![c].error = IF pc[c] = "idle" THEN @ ELSE "aborted"]
    /\ UNCHANGED <<running, proc, served, req, verdict, res, ws, gateVars, testVars, scriptVars>>

\* the listening socket counts a connection until its client socket closed
ClientGone(c) ==
    \/ pc[c] \in {"unconnected", "closed"}
    \/ pc[c] = "closing" /\ ws[c].client = "closed"

\* process.on('SIGINT'): server.close stops listening; its callback is
\* left for the time when every connection has ended
Sigint ==
    /\ running /\ ~proc.closing
    /\ proc' = [proc EXCEPT !.listening = FALSE, !.closing = TRUE]
    /\ UNCHANGED <<running, served, pc, req, verdict, res, be, ws, gateVars, testVars, scriptVars>>

\* SIGTERM has no handler: the process is terminated by the signal
Sigterm ==
    /\ running
    /\ running' = FALSE
    /\ proc' = [proc EXCEPT !.listening = FALSE, !.exit = "SIGTERM"]
    /\ pc' = [d \in Conns |-> IF pc[d] = "unconnected" THEN pc[d] ELSE "closed"]
    /\ UNCHANGED <<served, req, verdict, res, be, ws, gateVars, testVars, scriptVars>>

\* the callback of server.close: process.exit(0)
ServerClosed ==
    /\ running /\ proc.closing
    /\ \A c \in Conns : ClientGone(c)
    /\ running' = FALSE
    /\ proc' = [proc EXCEPT !.exit = "0"]
    /\ UNCHANGED <<served, pc, req, verdict, res, be, ws, gateVars, testVars, scriptVars>>

\* steps of every connection
Shared ==
    \/ \E c \in Conns : Connect(c)
    \/ \E c \in Conns : RelayChunk(c)
    \/ \E c \in Conns : RelayEnd(c)

\* the steps of connections that carry plain requests
HttpSteps ==
    \/ \E c \in Conns, r \in Requests : OnRequest(c, r)
    \/ \E c \in Conns, proxyRes \in BackendResponses : BackendRespond(c, proxyRes)
    \/ \E c \in Conns, kind \in {"refused", "reset", "timeout"} : BackendFail(c, kind)
    \/ \E c \in Conns : ClientTimeout(c)

\* the steps of connections that carry upgrade requests, drawn from R
WsSteps(R) ==
    \/ \E c \in Conns, r \in R : OnUpgrade(c, r)
    \/ \E c \in Conns, proxyRes \in UpgradeAnswers : WsBackendAck(c, proxyRes)
    \/ \E c \in Conns, proxyRes \in UpgradeAnswers : WsBackendRefuse(c, proxyRes)
    \/ \E c \in Conns, kind \in {"refused", "reset"} : WsBackendFail(c, kind)
    \/ \E c \in Conns : BackendSend(c)
    \/ \E c \in Conns : ClientSend(c)
    \/ \E c \in Conns : WsPumpToClient(c)
    \/ \E c \in Conns : WsPumpToBackend(c)
    \/ \E c \in Conns : ClientEof(c)
    \/ \E c \in Conns : BackendEof(c)
    \/ \E c \in Conns : ClientError(c)

\* signals to the process and its exit
ProcSteps == Sigint \/ Sigterm \/ ServerClosed

NextHttp == Shared \/ HttpSteps

\* upgrade requests with the headers of a browser's handshake, and one for
\* another protocol
HandshakeRequests ==
    { r \in UpgradeRequests : r.headers \in {UpgradeBase, UpgradeH2c} }

NextWs == Shared \/ WsSteps(HandshakeRequests)

Next == Shared \/ HttpSteps \/ WsSteps(Requests) \/ ProcSteps

\* the steps that are left when nothing listens on the target port
NextDown ==
    \/ \E c \in Conns : Connect(c)
    \/ \E c \in Conns, r \in Requests : OnRequest(c, r)
    \/ \E c \in Conns, r \in Requests : OnUpgrade(c, r)
    \/ \E c \in Conns : BackendFail(c, "refused")
    \/ \E c \in Conns : WsBackendFail(c, "refused")
    \/ \E c \in Conns : ClientEof(c)
    \/ \E c \in Conns : ClientTimeout(c)

\* the proxy with clients of both kinds
Spec == Init /\ [][Next]_vars

\* the proxy with clients that send plain requests only
SpecHttp == Init /\ [][NextHttp]_vars

\* the proxy with clients that send upgrade requests only
SpecWs == Init /\ [][NextWs]_vars

\* the proxy while the backend is unavailable
SpecDown == Init /\ [][NextDown]_vars

\* what the event loop and the timers of the process do without waiting
\* for a peer: a chunk that arrived is piped on, a timer that was set and
\* not cleared fires, the callback of server.close runs once every
\* connection has ended
Fairness ==
    /\ \A c \in Conns :
          /\ WF_vars(WsPumpToClient(c))
          /\ WF_vars(WsPumpToBackend(c))
          /\ WF_vars(ClientTimeout(c))
          /\ WF_vars(BackendFail(c, "timeout"))
    /\ WF_vars(ServerClosed)

SpecFair == Spec /\ Fairness

(***************************************************************************)
(* The gate alone: the request handler applied to one header collection    *)
(* after the other.                                                        *)
(***************************************************************************)
InitGate ==
    /\ ConnInit
    /\ gIn \in GateInputs
    /\ gOut = NoOutcome
    /\ TestInit

GateApply ==
    /\ gOut = NoOutcome
    /\ gOut' = RequestHandler(Request("GET", Url(<<"json">>, ""), "1.1", gIn))
    /\ UNCHANGED <<gIn, connVars, testVars, scriptVars>>

GateReset ==
    /\ gOut # NoOutcome
    /\ gIn' \in GateInputs
    /\ gOut' = NoOutcome
    /\ UNCHANGED <<connVars, testVars, scriptVars>>

NextGate == GateApply \/ GateReset

SpecGate == InitGate /\ [][NextGate]_vars

(***************************************************************************)
(* The full test run: the test client talks to the mock debugger through   *)
(* the proxy, first over HTTP, then over one WebSocket connection.         *)
(***************************************************************************)
Msg(type, id, method, arg, status, result) ==
    [type |-> type, id |-> id, method |-> method, arg |-> arg,
     status |-> status, result |-> result]

\* result objects of the DevTools protocol as the mock builds them
EmptyResult == [type |-> "object"]

NumberResult(v) == [type |-> "number", value |-> v]

StringResult(v) == [type |-> "string", value |-> v]

HttpGet(path) == Msg("http", 0, "GET", path, 0, EmptyResult)

Handshake(path) == Msg("upgrade", 0, "GET", path, 0, EmptyResult)

Command(id, method, expression) == Msg("cmd", id, method, expression, 0, EmptyResult)

CloseFrame == Msg("close", 0, "", "", 0, EmptyResult)

\* the end of a connection as its peer sees it
Fin == Msg("fin", 0, "", "", 0, EmptyResult)

\* the proxy's own answer when it cannot reach the mock
BadGateway == Msg("res", 0, "", "", 502, EmptyResult)

LoadEventFired == Msg("event", 0, "Page.loadEventFired", "", 0, EmptyResult)

testUrl == "data:text/html,<html>...window.testValue = 42;...</html>"

\* the positions of runFullTest in which the client waits for an answer
Awaits ==
    {"list1", "list2", "list3", "upgrade", "runtimeEnable", "evaluate4",
     "pageEnable", "navigate", "evaluate42", "close"}

\* the positions in which the client opens a connection of its own
Dials == {"list1", "list2", "list3", "upgrade"}

\* the four tests in the order in which runFullTest calls them
TestOrder == <<"connectivity", "websocket", "javascript", "navigation">>

\* the log line 'Testing ...' a test writes when it starts: the tests that
\* have started so far, after the request of position p
StartedAfter(s, p) ==
    CASE p = "list1" -> Append(s, "connectivity")
      [] p = "list2" -> Append(s, "websocket")
      [] p = "evaluate4" -> Append(s, "javascript")
      [] p = "pageEnable" -> Append(s, "navigation")
      [] OTHER -> s

\* what the client sends in position p, with command id i
RequestOf(p, i) ==
    CASE p \in {"list1", "list2", "list3"} -> HttpGet("/json/list")
      [] p = "upgrade" -> Handshake("/devtools/page/mock-page-1")
      [] p = "runtimeEnable" -> Command(i, "Runtime.enable", "")
      [] p = "evaluate4" -> Command(i, "Runtime.evaluate", "2 + 2")
      [] p = "pageEnable" -> Command(i, "Page.enable", "")
      [] p = "navigate" -> Command(i, "Page.navigate", testUrl)
      [] p = "evaluate42" -> Command(i, "Runtime.evaluate", "window.testValue")
      [] p = "close" -> CloseFrame

\* the status of the mock's HTTP answer for a path
MockHttpStatus(path) ==
    IF path \in {"/json", "/json/list", "/json/version", "/json/protocol",
                 "/json/new", "/health"}
    THEN 200
    ELSE IF path = "/devtools/inspector.html" THEN 200
    ELSE 404

\* Date.now() when a request is handled: two requests may see the same
\* millisecond
Epoch == 1000

Times == {Epoch, Epoch + 1}

\* parsedUrl.query.url of the requests
QueryUrls == {"", "http://example.com/"}

\* the target /json/new creates
newTarget(now, url) == Target(now, IF url = "" THEN "about:blank" ELSE url)

Answer(method, path, status, listing, targets) ==
    [method |-> method, path |-> path, status |-> status,
     listing |-> listing, targets |-> targets]

\* a handler whose target list shows the two first targets only
MockHttp_FirstTwo(method, path, url, now, targets) ==
    IF method = "OPTIONS" THEN Answer(method, path, 200, <<>>, targets)
    ELSE IF path \in {"/json", "/json/list"}
    THEN Answer(method, path, 200, SubSeq(targets, 1, 2), targets)
    ELSE IF path = "/json/new"
    THEN Answer(method, path, 200, <<newTarget(now, url)>>,
                Append(targets, newTarget(now, url)))
    ELSE Answer(method, path, MockHttpStatus(path), <<>>, targets)

\* the HTTP handler of the mock: the answer, what it lists, and the target
\* list afterwards
MockHttp(method, path, url, now, targets) ==
    IF method = "OPTIONS" THEN Answer(method, path, 200, <<>>, targets)
    ELSE IF path \in {"/json", "/json/list"}
    THEN Answer(method, path, 200, targets, targets)
    ELSE IF path = "/json/new"
    THEN Answer(method, path, 200, <<newTarget(now, url)>>,
                Append(targets, newTarget(now, url)))
    ELSE Answer(method, path, MockHttpStatus(path), <<>>, targets)

\* the mock after it has answered an HTTP request with a
Answered(m, a) ==
    [m EXCEPT !.targets = a.targets,
              !.nreq = @ + 1,
              !.last = [method |-> a.method, path |-> a.path,
                        status |-> a.status, listing |-> a.listing]]

\* the result the mock's message handler puts in its response
MockResult(method, expression) ==
    IF method = "Runtime.evaluate"
    THEN IF expression = "2 + 2" THEN NumberResult(4)
         ELSE IF expression = "window.testValue" THEN NumberResult(42)
         ELSE StringResult("Mock result")
    ELSE EmptyResult

\* what the mock answers to message m
MockReply(m) ==
    CASE m.type = "http" ->
            Msg("res", 0, m.method, m.arg,
                MockHttp(m.method, m.arg, "", Epoch, mock.targets).status,
                EmptyResult)
      [] m.type = "upgrade" -> Msg("res", 0, m.method, m.arg, 101, EmptyResult)
      [] m.type = "cmd" ->
            Msg("res", m.id, m.method, m.arg, 0, MockResult(m.method, m.arg))
      [] m.type = "close" -> Msg("res", 0, "", "", 0, EmptyResult)

\* the client's verdict on the answer m to what it sent in position p
Success(p, m) ==
    CASE p \in {"list1", "list2", "list3"} -> m.status = 200
      [] p = "upgrade" -> m.status = 101
      [] p = "evaluate4" -> m.result.type = "number" /\ m.result.value = 4
      [] p = "evaluate42" -> m.result.type = "number" /\ m.result.value = 42
      [] OTHER -> TRUE

\* runFullTest if it went on to the WebSocket test whatever the
\* connectivity test found
AfterReply_Continue(p, ok) ==
    CASE p = "list1" -> "list2"
      [] p = "list2" -> IF ok THEN "list3" ELSE "report"
      [] p = "list3" -> IF ok THEN "upgrade" ELSE "report"
      [] p = "upgrade" -> IF ok THEN "runtimeEnable" ELSE "report"
      [] p = "runtimeEnable" -> IF ok THEN "evaluate4" ELSE "report"
      [] p = "evaluate4" -> "pageEnable"
      [] p = "pageEnable" -> IF ok THEN "navigate" ELSE "report"
      [] p = "navigate" -> IF ok THEN "navigated" ELSE "report"
      [] p = "evaluate42" -> "report"
      [] p = "close" -> "done"

\* where runFullTest goes from position p when the answer is in
AfterReply(p, ok) ==
    CASE p = "list1" -> IF ok THEN "list2" ELSE "report"
      [] p = "list2" -> IF ok THEN "list3" ELSE "report"
      [] p = "list3" -> IF ok THEN "upgrade" ELSE "report"
      [] p = "upgrade" -> IF ok THEN "runtimeEnable" ELSE "report"
      [] p = "runtimeEnable" -> IF ok THEN "evaluate4" ELSE "report"
      [] p = "evaluate4" -> "pageEnable"
      [] p = "pageEnable" -> IF ok THEN "navigate" ELSE "report"
      [] p = "navigate" -> IF ok THEN "navigated" ELSE "report"
      [] p = "evaluate42" -> "report"
      [] p = "close" -> "done"

\* the results after the answer to position p
ResultsAfter(r, p, ok) ==
    CASE p = "list1" -> [r EXCEPT !.connectivity = ok]
      [] p = "runtimeEnable" -> [r EXCEPT !.websocket = ok]
      [] p = "evaluate4" -> [r EXCEPT !.javascript = ok]
      [] p = "evaluate42" -> [r EXCEPT !.navigation = ok]
      [] OTHER -> r

\* Object.values(results).filter(r => r.success).length
passedTests(r) ==
    Cardinality({ t \in DOMAIN r : r[t] })

\* Object.keys(results).length
totalTests(r) == Cardinality(DOMAIN r)

\* a finally block that leaves the client open
AfterReport_NoClose(client) == "done"

\* the finally block of runFullTest: the client is closed if there is one
AfterReport(client) == IF client THEN "close" ELSE "done"

\* the test client t after the promise of its position is settled:
\* resolved with a good answer (ok) or not
Settled(t, ok) ==
    [t EXCEPT
       !.pc = AfterReply(@, ok),
       !.sent = FALSE,
       !.client = @ \/ (t.pc = "upgrade" /\ ok),
       !.connected = IF t.pc = "upgrade" THEN ok
                     ELSE IF t.pc = "close" THEN FALSE
                     ELSE @,
       !.results = ResultsAfter(@, t.pc, ok),
       !.closeOutcome = IF t.pc = "close"
                        THEN IF ok THEN "closed" ELSE "failed"
                        ELSE @]

\* whether what the client sends in its position can leave: a new
\* connection needs the proxy, a command needs the WebSocket connection
CanSend ==
    IF tester.pc \in Dials THEN wire.proxyUp ELSE tester.connected

\* the client sends the request of its position
TesterSend ==
    /\ tester.exit = "none" /\ tester.pc \in Awaits /\ ~tester.sent
    /\ CanSend
    /\ wire' = [wire EXCEPT !.c2p = Append(@, RequestOf(tester.pc, tester.nextId))]
    /\ tester' = [tester EXCEPT
                    !.sent = TRUE,
                    !.started = StartedAfter(@, tester.pc),
                    !.nextId = IF RequestOf(tester.pc, tester.nextId).type = "cmd"
                               THEN @ + 1 ELSE @]
    /\ UNCHANGED <<connVars, gateVars, scriptVars, mock>>

\* nothing can be sent: the connection is refused or the WebSocket is
\* closed, the promise is rejected at once; close() of a closed connection
\* resolves
SendRejected ==
    /\ tester.exit = "none" /\ tester.pc \in Awaits /\ ~tester.sent
    /\ ~CanSend
    /\ tester' = [Settled(tester, tester.pc = "close") EXCEPT
                    !.started = StartedAfter(@, tester.pc)]
    /\ UNCHANGED <<connVars, gateVars, scriptVars, wire, mock>>

\* the proxy passes the next message of the client on to the mock
ProxyToMock ==
    /\ wire.proxyUp /\ wire.c2p # <<>>
    /\ wire' = [wire EXCEPT !.c2p = Tail(@), !.p2m = Append(@, Head(wire.c2p))]
    /\ UNCHANGED <<connVars, gateVars, scriptVars, tester, mock>>

\* the proxy passes the next message of the mock on to the client
ProxyToClient ==
    /\ wire.proxyUp /\ wire.m2p # <<>>
    /\ wire' = [wire EXCEPT !.m2p = Tail(@), !.p2c = Append(@, Head(wire.m2p))]
    /\ UNCHANGED <<connVars, gateVars, scriptVars, tester, mock>>

\* the mock does not accept connections any more: the proxy answers an
\* HTTP request with 502 and ends the socket of an upgrade request
ProxyBackendDown ==
    /\ wire.proxyUp /\ wire.p2m # <<>> /\ ~mock.listening
    /\ Head(wire.p2m).type \in {"http", "upgrade"}
    /\ wire' = [wire EXCEPT
                  !.p2m = Tail(@),
                  !.p2c = Append(@, IF Head(wire.p2m).type = "http"
                                    THEN BadGateway ELSE Fin)]
    /\ UNCHANGED <<connVars, gateVars, scriptVars, tester, mock>>

\* the proxy process ends (SIGINT, or an uncaught exception): what it held
\* is lost and both sides see their connections end
ProxyStops ==
    /\ wire.proxyUp
    /\ wire' = [wire EXCEPT
                  !.proxyUp = FALSE,
                  !.c2p = <<>>,
                  !.m2p = <<>>,
                  !.p2m = IF mock.wsOpen
                             \/ \E i \in 1..Len(wire.p2m) : wire.p2m[i].type = "upgrade"
                          THEN Append(@, Fin) ELSE @,
                  !.p2c = IF tester.exit = "none" /\ (tester.sent \/ tester.connected)
                          THEN Append(@, Fin) ELSE @]
    /\ UNCHANGED <<connVars, gateVars, scriptVars, tester, mock>>

\* a message handler that sets the timer of the load event for
\* Page.navigate as well
TimersSet_Navigate(method) ==
    IF method \in {"Page.enable", "Page.navigate"} THEN 1 ELSE 0

\* the timers the message handler sets for a method: one, for Page.enable
TimersSet(method) == IF method = "Page.enable" THEN 1 ELSE 0

\* one entry of the mock's record of a WebSocket connection
Entry(kind, id, method) == [kind |-> kind, id |-> id, method |-> method]

\* the mock handles the next message: Page.enable sets the timer of the
\* load event before the response is sent
MockHandle ==
    /\ mock.exit = "none" /\ wire.p2m # <<>>
    /\ LET m == Head(wire.p2m)
       IN  /\ m.type \in {"http", "upgrade"} => mock.listening
           /\ wire' = [wire EXCEPT
                         !.p2m = Tail(@),
                         !.m2p = IF m.type # "fin" /\ wire.proxyUp
                                 THEN Append(@, MockReply(m)) ELSE @]
           /\ mock' = [(IF m.type = "http"
                        THEN Answered(mock, MockHttp(m.method, m.arg, "", Epoch,
                                                     mock.targets))
                        ELSE mock) EXCEPT
                         !.wsOpen = IF m.type = "upgrade" THEN TRUE
                                    ELSE IF m.type \in {"close", "fin"} THEN FALSE
                                    ELSE @,
                         !.timers = IF m.type = "cmd"
                                    THEN @ + TimersSet(m.method) ELSE @,
                         !.got = IF m.type = "cmd"
                                 THEN Append(@, Entry("cmd", m.id, m.method)) ELSE @,
                         !.log = IF m.type = "cmd"
                                 THEN Append(@, Entry("res", MockReply(m).id, m.method))
                                 ELSE @]
    /\ UNCHANGED <<connVars, gateVars, scriptVars, tester>>

\* setTimeout(..., 100) of Page.enable fires and calls ws.send: the event is
\* sent on an open connection; on a closed one the call either throws, which
\* no one catches, or is dropped, as the ws library in use will have it
TimerFire ==
    /\ mock.exit = "none" /\ mock.timers > 0
    /\ IF mock.wsOpen
       THEN /\ mock' = [mock EXCEPT
                          !.timers = @ - 1,
                          !.log = Append(@, Entry("event", 0, LoadEventFired.method))]
            /\ wire' = [wire EXCEPT !.m2p = IF wire.proxyUp
                                            THEN Append(@, LoadEventFired) ELSE @]
       ELSE /\ \E thrown \in BOOLEAN :
                 mock' = [mock EXCEPT
                            !.timers = IF thrown THEN 0 ELSE @ - 1,
                            !.sendsOnClosed = @ + 1,
                            !.listening = IF thrown THEN FALSE ELSE @,
                            !.exit = IF thrown THEN "uncaught" ELSE @]
            /\ UNCHANGED wire
    /\ UNCHANGED <<connVars, gateVars, scriptVars, tester>>

\* SIGINT or SIGTERM of the mock: server.close(), no new connections
MockSignal ==
    /\ mock.exit = "none" /\ mock.listening
    /\ mock' = [mock EXCEPT !.listening = FALSE]
    /\ UNCHANGED <<connVars, gateVars, scriptVars, tester, wire>>

\* the callback of server.close(): the last connection is gone, the mock
\* exits and its timers go with it
MockExit ==
    /\ mock.exit = "none" /\ ~mock.listening /\ ~mock.wsOpen
    /\ mock' = [mock EXCEPT !.exit = "0", !.timers = 0]
    /\ UNCHANGED <<connVars, gateVars, scriptVars, tester, wire>>

\* the client gets the next message: an event goes to the listeners that
\* are registered at that moment, an answer resumes runFullTest, the end of
\* the connection rejects what is pending; close() of a connection that
\* ended under it resolves or rejects
ClientReceive ==
    /\ tester.exit = "none" /\ wire.p2c # <<>>
    /\ LET m == Head(wire.p2c)
       IN  CASE m.type = "event" ->
                  tester' = [tester EXCEPT !.loaded = @ \/ tester.listener]
             [] m.type = "fin" /\ ~tester.sent ->
                  tester' = [tester EXCEPT !.connected = FALSE]
             [] m.type = "fin" /\ tester.sent ->
                  \E ok \in {FALSE, tester.pc = "close"} :
                      tester' = [Settled(tester, ok) EXCEPT !.connected = FALSE]
             [] OTHER ->
                  tester' = Settled(tester, Success(tester.pc, m))
    /\ wire' = [wire EXCEPT !.p2c = Tail(@)]
    /\ UNCHANGED <<connVars, gateVars, scriptVars, mock>>

\* this.client.Page.loadEventFired(resolve), after the answer to
\* Page.navigate
RegisterListener ==
    /\ tester.exit = "none" /\ tester.pc = "navigated"
    /\ tester' = [tester EXCEPT !.pc = "waitLoad", !.listener = TRUE]
    /\ UNCHANGED <<connVars, gateVars, scriptVars, wire, mock>>

\* the promise of the load event is resolved
LoadResolved ==
    /\ tester.exit = "none" /\ tester.pc = "waitLoad" /\ tester.loaded
    /\ tester' = [tester EXCEPT !.pc = "evaluate42"]
    /\ UNCHANGED <<connVars, gateVars, scriptVars, wire, mock>>

\* generateReport(results), then the finally block
GenerateReport ==
    /\ tester.exit = "none" /\ tester.pc = "report"
    /\ tester' = [tester EXCEPT
                    !.report = [passedTests |-> passedTests(tester.results),
                                totalTests |-> totalTests(tester.results)],
                    !.pc = AfterReport(tester.client)]
    /\ UNCHANGED <<connVars, gateVars, scriptVars, wire, mock>>

\* process.exit(report.success ? 0 : 1)
TesterExit ==
    /\ tester.exit = "none" /\ tester.pc = "done"
    /\ tester' = [tester EXCEPT
                    !.exit = IF tester.report.passedTests = tester.report.totalTests
                             THEN "0" ELSE "1"]
    /\ UNCHANGED <<connVars, gateVars, scriptVars, wire, mock>>

\* process.on('SIGINT') of the test client: process.exit(0) wherever the
\* run stands; its connection ends with the process
TesterSigint ==
    /\ tester.exit = "none"
    /\ tester' = [tester EXCEPT !.pc = "interrupted", !.exit = "0"]
    /\ wire' = [wire EXCEPT
                  !.c2p = IF wire.proxyUp
                             /\ (tester.connected \/ (tester.pc = "upgrade" /\ tester.sent))
                          THEN Append(@, Fin) ELSE @]
    /\ UNCHANGED <<connVars, gateVars, scriptVars, mock>>

\* another client asks the mock over HTTP while the test runs
MockRequest(method, path, url) ==
    /\ mock.exit = "none" /\ mock.listening /\ mock.direct < MaxHttp
    /\ \E now \in Times :
          mock' = [Answered(mock, MockHttp(method, path, url, now, mock.targets))
                     EXCEPT !.direct = @ + 1]
    /\ UNCHANGED <<connVars, gateVars, scriptVars, tester, wire>>

Methods == {"GET", "OPTIONS"}

Paths == {"/json", "/json/list", "/json/new", "/unknown"}

NextTest ==
    \/ TesterSend
    \/ SendRejected
    \/ ProxyToMock
    \/ ProxyBackendDown
    \/ ProxyStops
    \/ MockHandle
    \/ TimerFire
    \/ MockSignal
    \/ MockExit
    \/ ProxyToClient
    \/ ClientReceive
    \/ RegisterListener
    \/ LoadResolved
    \/ GenerateReport
    \/ TesterExit
    \/ TesterSigint

SpecTest == Init /\ [][NextTest]_vars

\* the test run, nothing stopped, with other clients of the mock beside it
NextMock ==
    \/ TesterSend
    \/ ProxyToMock
    \/ MockHandle
    \/ TimerFire
    \/ ProxyToClient
    \/ ClientReceive
    \/ RegisterListener
    \/ LoadResolved
    \/ GenerateReport
    \/ TesterExit
    \/ \E method \in Methods, path \in Paths, url \in QueryUrls :
          MockRequest(method, path, url)

SpecMock == Init /\ [][NextMock]_vars

\* every step of the run is taken once it can be: messages in flight are
\* delivered, the timer fires, the client continues; signals and the end of
\* the proxy need not happen
SpecTestFair ==
    /\ SpecTest
    /\ WF_vars(TesterSend) /\ WF_vars(SendRejected)
    /\ WF_vars(ProxyToMock) /\ WF_vars(ProxyBackendDown)
    /\ WF_vars(MockHandle) /\ WF_vars(TimerFire) /\ WF_vars(MockExit)
    /\ WF_vars(ProxyToClient) /\ WF_vars(ClientReceive)
    /\ WF_vars(RegisterListener) /\ WF_vars(LoadResolved)
    /\ WF_vars(GenerateReport) /\ WF_vars(TesterExit)

(***************************************************************************)
(* The startup script: how it gets the Chrome port and the nginx port.  A  *)
(* text of the shell is the sequence of its characters: the digits as      *)
(* numbers, every other character as Letter.                               *)
(***************************************************************************)
Letter == 10

Digits == 0..9

\* [[ "$t" =~ ^[0-9]+$ ]]
IsNumeric(t) == t # <<>> /\ \A i \in 1..Len(t) : t[i] \in Digits

\* the number the digits of t denote in the given base
RECURSIVE ValueIn(_, _)
ValueIn(t, base) ==
    IF t = <<>> THEN 0
    ELSE ValueIn(SubSeq(t, 1, Len(t) - 1), base) * base + t[Len(t)]

\* [ "$t" -lt n ] reads t as a decimal number, leading zeros and all
Decimal(t) == ValueIn(t, 10)

\* $((t + 1)) reads t as the shell's arithmetic does: nothing and the name
\* of a variable without a value are 0, a number with a leading 0 is octal
\* and an error when it has a digit above 7
Arith(t) ==
    IF ~IsNumeric(t) THEN [ok |-> TRUE, value |-> 0]
    ELSE IF Len(t) > 1 /\ t[1] = 0
    THEN IF \E i \in 1..Len(t) : t[i] > 7
         THEN [ok |-> FALSE, value |-> 0]
         ELSE [ok |-> TRUE, value |-> ValueIn(t, 8)]
    ELSE [ok |-> TRUE, value |-> Decimal(t)]

\* NGINX_PORT=$((CHROME_PORT + 1)): after an arithmetic error the
\* assignment is not made and the script goes on
NextPort(chromePort, old) ==
    IF Arith(chromePort).ok THEN Arith(chromePort).value + 1 ELSE old

\* CHROME_PORT=${CHROME_PORT:-9222}
DefaultPort(env) == IF env = <<>> THEN <<9, 2, 2, 2>> ELSE env

\* the validation of the Chrome port
ValidPort(t) == IsNumeric(t) /\ ~(Decimal(t) < 1024) /\ ~(Decimal(t) > 65535)

\* the texts given as CHROME_PORT or after --port; the empty text as
\* CHROME_PORT is also the variable without a value
PortTexts ==
    { <<>>, <<1, 0, 2, 3>>, <<1, 0, 2, 4>>, <<9, 3, 3, 3>>,
      <<6, 5, 5, 3, 4>>, <<6, 5, 5, 3, 5>>, <<6, 5, 5, 3, 6>>,
      <<0, 1, 0, 2, 4>>, <<0, 9, 2, 2, 2>>, <<Letter, Letter, Letter>> }

\* the values of the --port options of a command line, in their order
PortArgs ==
    { <<>> } \cup { <<t>> : t \in PortTexts }
    \cup { <<t, u>> : t \in {<<0, 9, 2, 2, 2>>, <<6, 5, 5, 3, 5>>},
                      u \in {<<9, 3, 3, 3>>, <<0, 9, 2, 2, 2>>} }

\* the script is started with CHROME_PORT = env and the options args
Launch(env, args) ==
    /\ script.pc = "off"
    /\ script' = [script EXCEPT !.pc = "configure", !.CHROME_PORT = env, !.args = args]
    /\ UNCHANGED <<connVars, gateVars, testVars>>

\* the configuration block at the top of the script
Configure ==
    /\ script.pc = "configure"
    /\ LET port == DefaultPort(script.CHROME_PORT)
       IN  script' = [script EXCEPT
                        !.pc = "arguments",
                        !.CHROME_PORT = port,
                        !.NGINX_PORT = NextPort(port, @)]
    /\ UNCHANGED <<connVars, gateVars, testVars>>

\* -p|--port of the argument loop
ParsePort ==
    /\ script.pc = "arguments" /\ script.args # <<>>
    /\ LET port == Head(script.args)
       IN  script' = [script EXCEPT
                        !.CHROME_PORT = port,
                        !.NGINX_PORT = NextPort(port, @),
                        !.args = Tail(@)]
    /\ UNCHANGED <<connVars, gateVars, testVars>>

\* the argument loop has ended: the port is validated, and the ports are
\* logged unless error() has ended the script
Validate ==
    /\ script.pc = "arguments" /\ script.args = <<>>
    /\ script' = [script EXCEPT
                    !.pc = IF ValidPort(script.CHROME_PORT) THEN "reported" ELSE "rejected"]
    /\ UNCHANGED <<connVars, gateVars, testVars>>

NextScript ==
    \/ \E env \in PortTexts, args \in PortArgs : Launch(env, args)
    \/ Configure
    \/ ParsePort
    \/ Validate

SpecScript == Init /\ [][NextScript]_vars

(***************************************************************************)
(* Properties.                                                             *)
(***************************************************************************)
Rejections == {"RejectedDefault", "RejectedExpanded"}

Synthetic400s ==
    { Written(400, "text/html", Body400Default),
      Written(400, "text/html", Body400Expanded) }

\* C1: a plain request is proxied only after the gate accepted it: for a
\* rejected request no connection to the backend is attempted and the
\* backend gets nothing of it, whatever the other connections are doing.
C1_GateBeforeRelay ==
    \A c \in Conns :
        /\ verdict[c] \in Rejections =>
              be[c].attempts = 0 /\ be[c].got = NoLine
        /\ (req[c] # NoReq /\ ~IsUpgradeRequest(req[c]) /\ be[c].attempts > 0) =>
              verdict[c] = "Accepted"

\* a rejected request on one connection while the backend serves another
C1_Witness ==
    \E c, d \in Conns :
        /\ c # d
        /\ verdict[c] = "RejectedDefault" /\ be[c].attempts = 0
        /\ pc[d] = "streaming" /\ be[d].got # NoLine

\* C2 (as claimed): an upgrade request whose headers exceed the rejection
\* threshold gets the synthetic 400 of a plain request and no connection
\* to the backend is attempted for it.
C2_UpgradeGated ==
    \A c \in Conns :
        (/\ req[c] # NoReq
         /\ IsUpgradeRequest(req[c])
         /\ headerSize(req[c].headers) > 32768) =>
            /\ res[c] = Written(400, "text/html", Body400Default)
            /\ be[c].attempts = 0

\* C3: the gate's verdict is RejectedDefault exactly when the header size
\* exceeds 32768; 32768 itself is Accepted and 32769 is RejectedDefault.
C3_DefaultIffAbove32768 ==
    gOut # NoOutcome =>
        LET s == headerSize(gIn)
        IN  /\ (gOut.verdict = "RejectedDefault") <=> (s > 32768)
            /\ s = 32768 => gOut.verdict = "Accepted"
            /\ s = 32769 => gOut.verdict = "RejectedDefault"
            /\ s > 32768 => s > 1024

C3_Witness ==
    /\ gOut # NoOutcome
    /\ headerSize(gIn) = 32768
    /\ gOut.verdict = "Accepted"

\* C4: the default tier is checked first and wins above 32768 also beyond
\* 524288: RejectedExpanded and its body are never produced, and a header
\* size of 524288 is RejectedDefault.
C4_NeverRejectedExpanded ==
    gOut # NoOutcome =>
        LET s == headerSize(gIn)
        IN  /\ gOut.verdict # "RejectedExpanded"
            /\ gOut.res.body # Body400Expanded
            /\ s >= 524288 =>
                  /\ gOut.verdict = "RejectedDefault"
                  /\ gOut.res = Response(400, "text/html", Body400Default)

C4_Witness ==
    /\ gOut # NoOutcome
    /\ headerSize(gIn) > 524288
    /\ gOut.verdict = "RejectedDefault"

\* C5: a request whose header size is at most 1024 is accepted: it is not
\* answered with a synthetic 400 and it is handed to the relay.
C5_SmallAccepted ==
    \A c \in Conns :
        (req[c] # NoReq /\ headerSize(req[c].headers) <= 1024) =>
            /\ ~IsUpgradeRequest(req[c]) => verdict[c] = "Accepted"
            /\ verdict[c] \notin Rejections
            /\ res[c] \notin Synthetic400s
            /\ be[c].attempts >= 1

\* a plain request of exactly 1024 bytes of headers has reached the backend
C5_Witness ==
    \E c \in Conns :
        /\ ~IsUpgradeRequest(req[c])
        /\ headerSize(req[c].headers) = 1024
        /\ verdict[c] = "Accepted"
        /\ be[c].got # NoLine

\* C6: the verdict depends on the header collection only: two requests
\* with the same headers get the same verdict, whatever their method, url
\* and version and whatever the process served before them.
C6_VerdictOfHeadersOnly ==
    \A c, d \in Conns :
        (/\ req[c] # NoReq /\ req[d] # NoReq
         /\ req[c].headers = req[d].headers) =>
            verdict[c] = verdict[d]

\* the same oversized headers under two request lines, the second after
\* other requests were served
C6_Witness ==
    \E c, d \in Conns :
        /\ req[c].headers = req[d].headers
        /\ req[c].method # req[d].method
        /\ req[c].url # req[d].url
        /\ req[c].httpVersion # req[d].httpVersion
        /\ verdict[c] = "RejectedDefault" /\ verdict[d] = "RejectedDefault"
        /\ served >= 3

\* C7 (as claimed): a rejected request gets exactly one response, a 400 of
\* type text/html whose body names the reason, and its connection is closed
\* after it.
C7_RejectedAnsweredAndClosed ==
    \A c \in Conns :
        verdict[c] \in Rejections =>
            /\ res[c].heads = <<ResHead(400, "text/html")>>
            /\ \E i \in 1..Len(res[c].body) :
                  res[c].body[i] = "<center>Request Header Or Cookie Too Large</center>"
            /\ res[c].ended
            /\ pc[c] = "closed"

\* C8 (as claimed): when the backend of an accepted plain request is
\* unreachable or resets the connection, the client gets the 502 response
\* and its connection is closed.
C8_BadGatewayAndClosed ==
    \A c \in Conns :
        (/\ req[c] # NoReq /\ ~IsUpgradeRequest(req[c])
         /\ verdict[c] = "Accepted"
         /\ be[c].error \in {"refused", "reset"}) =>
            /\ res[c] = Written(502, "text/plain", Body502)
            /\ pc[c] = "closed"

\* an accepted plain request whose backend answered without failing
Relayed(c) ==
    /\ req[c] # NoReq /\ ~IsUpgradeRequest(req[c])
    /\ verdict[c] = "Accepted"
    /\ be[c].resp # NoBackendResponse
    /\ be[c].error = "none"

\* what the client of c has of the backend's answer is a part of it, in
\* order, and all of it once the response has ended
Verbatim(c) ==
    /\ Len(res[c].heads) <= 1
    /\ \A i \in 1..Len(res[c].heads) : res[c].heads[i].status = be[c].resp.status
    /\ Len(res[c].body) <= Len(be[c].resp.body)
    /\ res[c].body = SubSeq(be[c].resp.body, 1, Len(res[c].body))
    /\ res[c].ended =>
          /\ res[c].heads = <<ResHead(be[c].resp.status, be[c].resp.ctype)>>
          /\ res[c].body = be[c].resp.body

NonEmpty(seg) == seg # ""

\* C9 (as claimed): the client of an accepted plain request gets the status
\* and the body the backend produced for the request with the same method
\* and the same path and query, nothing added, dropped or reordered.
C9_VerbatimSameTarget ==
    \A c \in Conns :
        Relayed(c) =>
            /\ be[c].got = [method |-> req[c].method, url |-> req[c].url]
            /\ Verbatim(c)

\* C9 (amended): the client of an accepted plain request gets the status
\* and the body the backend produced for the request with the same method,
\* the same query and the same non-empty path segments in the same order,
\* nothing added, dropped or reordered.
C9_VerbatimJoinedTarget ==
    \A c \in Conns :
        Relayed(c) =>
            /\ be[c].got.method = req[c].method
            /\ be[c].got.url.query = req[c].url.query
            /\ SelectSeq(be[c].got.url.path, NonEmpty)
                 = SelectSeq(req[c].url.path, NonEmpty)
            /\ Verbatim(c)

\* a request for //json/new answered in full through the proxy
C9_Witness ==
    \E c \in Conns :
        /\ Relayed(c)
        /\ req[c].url.path # be[c].got.url.path
        /\ res[c].ended
        /\ Len(res[c].body) = 2

\* the backend of an upgrade request of c did not switch protocols
Refused(c) == be[c].resp # NoBackendResponse /\ be[c].resp.status # 101

\* the handshake with the backend of an upgrade request of c failed
HandshakeFailed(c) == be[c].resp = NoBackendResponse /\ be[c].error # "none"

SentPrefix(from, n) == [i \in 1..n |-> Frame(from, i)]

\* C11: in the Relaying state each direction delivers a prefix of what its
\* peer sent, in order and unmodified, and a direction with chunks to
\* deliver can always deliver the next one, whatever the other direction
\* has sent or delivered.
C11_PumpsIndependentPrefix ==
    \A c \in Conns :
        /\ Len(ws[c].toClient) <= ws[c].bSent
        /\ ws[c].toClient = SentPrefix("backend", Len(ws[c].toClient))
        /\ Len(ws[c].toBackend) <= ws[c].cSent
        /\ ws[c].toBackend = SentPrefix("client", Len(ws[c].toBackend))
        /\ (running /\ pc[c] = "relaying") =>
              /\ Len(ws[c].toClient) < ws[c].bSent => ENABLED WsPumpToClient(c)
              /\ Len(ws[c].toBackend) < ws[c].cSent => ENABLED WsPumpToBackend(c)

\* both chunks of the backend delivered to a client that never sent one
C11_Witness ==
    \E c \in Conns :
        /\ pc[c] = "relaying"
        /\ ws[c].cSent = 0
        /\ Len(ws[c].toClient) = MaxFrames
        /\ ws[c].toClient = SentPrefix("backend", ws[c].bSent)

SessionChanged(i) == ws'[i] # ws[i] \/ pc'[i] # pc[i]

\* C14: a step that closes or fails one WebSocket session (or does anything
\* else to it) leaves every other session as it is, and next to a session
\* that closed or failed a relaying session has its chunks in order with
\* none dropped and can deliver the next one.
C14_SessionsIsolated ==
    /\ [][\A i, j \in Conns :
            (i # j /\ SessionChanged(i)) =>
                ws'[j] = ws[j] /\ pc'[j] = pc[j] /\ res'[j] = res[j]]_vars
    /\ [](\A i, j \in Conns :
            (/\ i # j /\ running
             /\ pc[i] \in {"closing", "closed"}
             /\ pc[j] = "relaying") =>
                /\ ws[j].toClient = SentPrefix("backend", Len(ws[j].toClient))
                /\ ws[j].toBackend = SentPrefix("client", Len(ws[j].toBackend))
                /\ Len(ws[j].toClient) < ws[j].bSent => ENABLED WsPumpToClient(j)
                /\ Len(ws[j].toBackend) < ws[j].cSent => ENABLED WsPumpToBackend(j))

\* a session whose backend socket failed during the relay, next to a
\* session that relays chunks in both directions
C14_Witness ==
    \E i, j \in Conns :
        /\ i # j
        /\ be[i].resp.status = 101 /\ be[i].error = "reset"
        /\ pc[i] \in {"closing", "closed"}
        /\ pc[j] = "relaying"
        /\ Len(ws[j].toClient) >= 1 /\ Len(ws[j].toBackend) >= 1

\* C12 (as claimed): a relayed session in which one socket had an EOF or an
\* error and that is not yet closed on both sides is eventually closed on
\* both sides.
C12_TeardownCompletes ==
    \A c \in Conns :
        (running /\ pc[c] = "closing" /\ be[c].resp.status = 101)
            ~> (~running \/ pc[c] = "closed")

\* the exchange of c waits for the backend
AwaitsBackend(c) == pc[c] \in {"proxying", "streaming", "wsConnecting", "wsRefused"}

\* C15 (as claimed): an exchange that waits for the backend eventually ends
\* in a response that was ended, an established relay or a closed
\* connection, also when the backend accepted the connection and stalls.
C15_EveryExchangeEnds ==
    \A c \in Conns :
        (running /\ AwaitsBackend(c)) ~> (~running \/ ~AwaitsBackend(c))

\* C16 (as claimed): no failure on a connection ends the process; in
\* particular the process keeps running when the backend fails after the
\* response head was forwarded.
C16_FailureKeepsProcess == proc.exit # "uncaught"

\* C18 (as claimed): a request with an Upgrade header that is not a
\* WebSocket handshake is not dropped: when its connection is closed the
\* client has got the head of an HTTP response.
C18_OtherUpgradeAnswered ==
    \A c \in Conns :
        (/\ running /\ req[c] # NoReq
         /\ IsUpgradeRequest(req[c]) /\ checkMethodAndHeader(req[c])
         /\ pc[c] = "closed") =>
            res[c].heads # <<>>

\* C19 (as claimed): SIGTERM does not end the process other than with
\* status 0, and after SIGINT the server has stopped listening and the
\* process eventually exits with status 0, whatever connections are open.
C19_SignalExitsZero ==
    /\ [](proc.exit # "SIGTERM")
    /\ [](proc.closing => ~proc.listening)
    /\ (proc.closing ~> proc.exit = "0")

\* C20 (as claimed): unless the test client is interrupted or the mock or
\* the proxy is stopped, the full test run ends, and it ends with a report
\* of 4 of 4 tests passed.
C20_SuiteReportsAllPassed ==
    <>(\/ tester.pc = "interrupted"
       \/ ~mock.listening
       \/ ~wire.proxyUp
       \/ /\ tester.pc = "done"
          /\ tester.report = [passedTests |-> 4, totalTests |-> 4])

\* C21 (as claimed): when the script has accepted the Chrome port and
\* logged the two ports, the nginx port is the Chrome port plus 1 and is at
\* most 65535.
C21_ProxyPortIsNextAndValid ==
    script.pc = "reported" =>
        /\ script.NGINX_PORT = Decimal(script.CHROME_PORT) + 1
        /\ script.NGINX_PORT <= 65535

IsPrefix(s, u) == Len(s) <= Len(u) /\ s = SubSeq(u, 1, Len(s))

\* C22: the tests of runFullTest start in the order connectivity, websocket,
\* javascript, navigation; the websocket test has started only if the
\* connectivity test succeeded, the javascript and navigation tests only if
\* the websocket test succeeded; and in the report every test that has not
\* started counts as failed.
C22_OrderAndPrerequisites ==
    /\ IsPrefix(tester.started, TestOrder)
    /\ Len(tester.started) >= 2 => tester.results.connectivity
    /\ Len(tester.started) >= 3 => tester.results.websocket
    /\ tester.report # NoReport =>
          /\ \A i \in 1..Len(TestOrder) :
                i > Len(tester.started) => ~tester.results[TestOrder[i]]
          /\ tester.report.passedTests <= Len(tester.started)
          /\ tester.report.totalTests = Len(TestOrder)

\* the websocket test failed: the run is over with 1 of 4 and the other two
\* tests have not started
C22_Witness ==
    /\ tester.pc = "done"
    /\ tester.started = <<"connectivity", "websocket">>
    /\ ~tester.results.websocket
    /\ tester.report = [passedTests |-> 1, totalTests |-> 4]

\* C23: when runFullTest is over and it had a WebSocket client, close() of
\* that client has been called and awaited, whatever the tests found; and
\* the report, once made, is not changed by the close, not even by a close
\* that fails.
C23_ClientClosedOnEveryPath ==
    /\ [](tester.pc = "done" /\ tester.client => tester.closeOutcome # "none")
    /\ [][tester.report # NoReport => tester'.report = tester.report]_vars

\* a run is over, the close of its client has failed and the report is
\* the one made before the close
C23_Witness ==
    /\ tester.pc = "done" /\ tester.client
    /\ tester.closeOutcome = "failed"
    /\ tester.report = [passedTests |-> passedTests(tester.results),
                        totalTests |-> totalTests(tester.results)]

\* the entries of kind k among the first n entries of the mock's record
Among(k, n) == { i \in 1..n : mock.log[i].kind = k }

EnableAnswers(n) ==
    { i \in 1..n : mock.log[i].kind = "res" /\ mock.log[i].method = "Page.enable" }

C25_NoSendOnClosed == mock.sendsOnClosed = 0

\* the step answers an HTTP request that the handler routes to one of paths
Routed(paths) ==
    /\ mock'.nreq # mock.nreq
    /\ mock'.last.method # "OPTIONS"
    /\ mock'.last.path \in paths

\* C26: the one target list of the mock only grows: a step that answers
\* /json/new appends exactly the target it answers with, every other step
\* (any other request, OPTIONS, a WebSocket message, a timer) leaves the
\* list as it is; and an answer to /json or /json/list lists the whole
\* list, so every target created before it.
C26_TargetsOnlyGrow ==
    [][/\ IF Routed({"/json/new"})
          THEN /\ Len(mock'.last.listing) = 1
               /\ mock'.targets = Append(mock.targets, mock'.last.listing[1])
          ELSE mock'.targets = mock.targets
       /\ Routed({"/json", "/json/list"}) =>
             /\ mock'.last.status = 200
             /\ mock'.last.listing = mock'.targets
             /\ IsPrefix(mockTargets, mock'.last.listing)]_vars

\* after WebSocket messages of the test run and a /json/new of another
\* client, the answer to /json lists three targets
C26_Witness ==
    /\ mock.last.method = "GET" /\ mock.last.path = "/json"
    /\ Len(mock.last.listing) = Len(mockTargets) + 1
    /\ mock.last.listing = mock.targets
    /\ mock.log # <<>>

====
